---- MODULE Spec2Model ----
(***************************************************************************)
(* spring-init: model of src/main.rs.                                      *)
(*                                                                         *)
(* Three parts of the program are modelled:                                *)
(*   - the dependency merge at the head of init_project (lines 209-254),   *)
(*   - the init_project pipeline of fallible steps (lines 207-305),        *)
(*   - sync_plugins, the textual patching of pom.xml (lines 322-385).      *)
(*                                                                         *)
(* A Rust String is a sequence of symbols.  In dependency strings a symbol *)
(* is one character.  In pom.xml text an XML tag, a newline followed by    *)
(* its indentation, an identifier and the colon are one symbol each; the   *)
(* searches of the code (contains, find, split) never match a part of such *)
(* a symbol, so substring search on the text is subsequence search here.   *)
(***************************************************************************)
EXTENDS Integers, Sequences, FiniteSets, TLC

VARIABLES
    \* ---- init_project: dependency merge
    prd_path,       \* "none" | "some": Option<&str> argument
    include,        \* [some |-> BOOLEAN, items |-> Seq(String)]: Option<Vec<String>>
    all_deps,       \* the String all_deps
    reply,          \* history: all_deps as lines 209-233 assigned it
    url_deps,       \* the dependencies parameter formatted into the URL, or Unset
    \* ---- init_project: pipeline
    pc,             \* position in init_project / sync_plugins
    log,            \* history: the steps executed so far with their outcome
    result,         \* "running" | "ok" | "err": value returned by the top-level call
    zip_exists,     \* spring.zip is on disk
    app_exists,     \* config.app_dir() is on disk
    \* ---- sync_plugins
    file,           \* persisted text of pom.xml, or NoFile
    required,       \* config.maven_plugins
    pom_content,    \* the outer pom_content read once at line 325
    idx,            \* 1-based position of the for loop in required
    writes,         \* history: number of fs::write calls in the current call
    inserted,       \* history: coordinates inserted in the current call, in order
    sync_res,       \* "running" | "ok" | "io" | "format" | "marker": outcome of sync_plugins
    run,            \* history: 1 for the first call of sync_plugins, 2 for a repeated call
    file0,          \* history: text of pom.xml when the current call started
    file_run1       \* history: text of pom.xml when the first call returned

mergeVars == <<prd_path, include, all_deps, reply, url_deps>>
pipeVars  == <<pc, log, result, zip_exists, app_exists>>
syncVars  == <<file, required, pom_content, idx, writes, inserted, sync_res, run, file0, file_run1>>
vars      == <<mergeVars, pipeVars, syncVars>>

Unset  == <<"unset">>
NoFile == <<"nofile">>

----------------------------------------------------------------------------
(* Bounds *)

MaxPlugins  == 3    \* length of config.maven_plugins
MaxReplyLen == 4    \* characters in the reply of the suggestion service
MaxInclude  == 2    \* entries of --include
MaxTokLen   == 2    \* characters in one --include entry

----------------------------------------------------------------------------
(* Rust str / String primitives *)

SeqsUpTo(S, n) == UNION { [1..k -> S] : k \in 0..n }

\* str::contains: pat occurs in s as a contiguous run
Contains(s, pat) ==
    \E i \in 0..(Len(s) - Len(pat)) : SubSeq(s, i + 1, i + Len(pat)) = pat

\* str::find: 1-based position of the first occurrence, 0 for None
Find(s, pat) ==
    IF Contains(s, pat)
    THEN CHOOSE i \in 1..(Len(s) - Len(pat) + 1) :
            /\ SubSeq(s, i, i + Len(pat) - 1) = pat
            /\ \A j \in 1..(i - 1) : SubSeq(s, j, j + Len(pat) - 1) # pat
    ELSE 0

\* String::insert_str at a 1-based position
InsertStr(s, pos, t) == SubSeq(s, 1, pos - 1) \o t \o SubSeq(s, pos, Len(s))

\* str::split on a one-symbol separator: n separators give n + 1 parts, empty parts kept
RECURSIVE Split(_, _)
Split(s, sep) ==
    LET p == Find(s, <<sep>>) IN
    IF p = 0 THEN <<s>>
    ELSE <<SubSeq(s, 1, p - 1)>> \o Split(SubSeq(s, p + 1, Len(s)), sep)

RECURSIVE TrimStart(_)
TrimStart(s) == IF s # <<>> /\ Head(s) = " " THEN TrimStart(Tail(s)) ELSE s

RECURSIVE TrimEnd(_)
TrimEnd(s) ==
    IF s # <<>> /\ s[Len(s)] = " " THEN TrimEnd(SubSeq(s, 1, Len(s) - 1)) ELSE s

\* str::trim
Trim(s) == TrimEnd(TrimStart(s))

\* [String]::join
RECURSIVE Join(_, _)
Join(parts, sep) ==
    IF parts = <<>> THEN <<>>
    ELSE IF Len(parts) = 1 THEN parts[1]
    ELSE parts[1] \o <<sep>> \o Join(Tail(parts), sep)

\* code point of the characters that occur in dependency strings
Ord(c) ==
    CASE c = " " -> 32
      [] c = "," -> 44
      [] c = "a" -> 97
      [] c = "b" -> 98
      [] c = "e" -> 101
      [] c = "w" -> 119

\* Ord for String: s < t, lexicographic by code point
RECURSIVE StrLess(_, _)
StrLess(s, t) ==
    IF t = <<>> THEN FALSE
    ELSE IF s = <<>> THEN TRUE
    ELSE IF Ord(Head(s)) # Ord(Head(t)) THEN Ord(Head(s)) < Ord(Head(t))
    ELSE StrLess(Tail(s), Tail(t))

\* Vec<String>::sort (stable insertion of each element into the sorted prefix)
RECURSIVE SortInsert(_, _)
SortInsert(x, v) ==
    IF v = <<>> THEN <<x>>
    ELSE IF StrLess(x, Head(v)) THEN <<x>> \o v
    ELSE <<Head(v)>> \o SortInsert(x, Tail(v))

RECURSIVE Sort(_)
Sort(v) == IF v = <<>> THEN <<>> ELSE SortInsert(Head(v), Sort(Tail(v)))

\* Vec::dedup: removes consecutive repeated elements
RECURSIVE Dedup(_)
Dedup(v) ==
    IF Len(v) < 2 THEN v
    ELSE IF v[1] = v[2] THEN Dedup(Tail(v))
    ELSE <<v[1]>> \o Dedup(Tail(v))

\* iterator map(|s| s.trim()).collect()
MapTrim(v) == [i \in 1..Len(v) |-> Trim(v[i])]

----------------------------------------------------------------------------
(* init_project: dependency merge *)

\* String::from("web"), line 232
Web == <<"w", "e", "b">>

NoInclude == [some |-> FALSE, items |-> <<>>]
SomeInclude(items) == [some |-> TRUE, items |-> items]

\* lines 236-243: with --include the reply is split, trimmed, extended, sorted,
\* deduplicated and joined; without it all_deps stays as it is
MergeDeps(deps, inc) ==
    IF inc.some
    THEN LET prd_deps == MapTrim(Split(deps, ","))
             combined_deps == Dedup(Sort(prd_deps \o inc.items))
         IN  Join(combined_deps, ",")
    ELSE deps

\* all_deps.trim() of lines 251 and 254
UrlDeps(deps) == Trim(deps)

----------------------------------------------------------------------------
(* init_project: steps *)

Entry(step, outcome) == [step |-> step, outcome |-> outcome]

\* a `?` or an explicit return Err(..): the error leaves init_project
Fail(step) ==
    /\ log' = Append(log, Entry(step, "err"))
    /\ result' = "err"
    /\ pc' = "done"

Pass(step, next) ==
    /\ log' = Append(log, Entry(step, "ok"))
    /\ pc' = next
    /\ UNCHANGED result

\* replies of the suggestion service in the pipeline runs
PipelineReplies == { <<"b", ",", " ", "a">>, <<"a">> }

\* lines 209-230: read the PRD and the catalog, build the prompt, call the service
Suggest ==
    /\ pc = "start"
    /\ prd_path = "some"
    /\ \/ /\ Fail("suggest")
          /\ UNCHANGED <<all_deps, reply>>
       \/ /\ Pass("suggest", "merge")
          /\ \E r \in PipelineReplies : all_deps' = r /\ reply' = r
    /\ UNCHANGED <<prd_path, include, url_deps, zip_exists, app_exists, syncVars>>

\* lines 231-233: no PRD, the default dependency
DefaultDeps ==
    /\ pc = "start"
    /\ prd_path = "none"
    /\ all_deps' = Web
    /\ reply' = Web
    /\ pc' = "merge"
    /\ UNCHANGED <<prd_path, include, url_deps, log, result, zip_exists, app_exists, syncVars>>

\* lines 235-243
Merge ==
    /\ pc = "merge"
    /\ all_deps' = MergeDeps(all_deps, include)
    /\ pc' = "reset"
    /\ UNCHANGED <<prd_path, include, reply, url_deps, log, result, zip_exists, app_exists, syncVars>>

\* line 246, reset(): remove spring.zip, then the app directory, when they exist
Reset ==
    /\ pc = "reset"
    /\ \/ /\ Pass("reset", "download")
          /\ zip_exists' = FALSE
          /\ app_exists' = FALSE
          /\ file' = NoFile
       \/ /\ zip_exists
          /\ Fail("reset")
          /\ UNCHANGED <<zip_exists, app_exists, file>>
       \/ /\ app_exists
          /\ Fail("reset")
          /\ zip_exists' = FALSE
          /\ UNCHANGED <<app_exists, file>>
    /\ UNCHANGED <<mergeVars, required, pom_content, idx, writes, inserted, sync_res, run,
                   file0, file_run1>>

\* lines 249-268: format the URL and run curl -o spring.zip
Download ==
    /\ pc = "download"
    /\ url_deps' = UrlDeps(all_deps)
    /\ \/ /\ Pass("download", "unzip")
          /\ zip_exists' = TRUE
       \/ /\ Fail("download")
          /\ zip_exists' \in BOOLEAN
    /\ UNCHANGED <<prd_path, include, all_deps, reply, app_exists, syncVars>>

\* pom.xml texts of the unpacked scaffold in the pipeline runs
ScaffoldDocs ==
    { NoFile,
      <<"<project>">>,
      <<"<project>", "</project>">>,
      <<"<project>", "<!--", "g1", ":", "a1", ":", "v1", "-->", "</project>">>,
      <<"<project>", "<build>", "<plugins>", "</plugins>", "</build>", "</project>">> }

\* a variant that goes on after unzip reported a failure
UnzipUnchecked ==
    /\ pc = "unzip"
    /\ \/ /\ Pass("unzip", "remove_zip")
          /\ app_exists' = TRUE
          /\ file' \in ScaffoldDocs
       \/ /\ log' = Append(log, Entry("unzip", "err"))
          /\ pc' = "remove_zip"
          /\ UNCHANGED <<result, app_exists, file>>
    /\ UNCHANGED <<mergeVars, zip_exists, required, pom_content, idx, writes, inserted,
                   sync_res, run, file0, file_run1>>

\* lines 270-282: run unzip spring.zip -d projects_dir and check its status
Unzip ==
    /\ pc = "unzip"
    /\ \/ /\ Pass("unzip", "remove_zip")
          /\ app_exists' = TRUE
          /\ file' \in ScaffoldDocs
       \/ /\ Fail("unzip")
          /\ UNCHANGED <<app_exists, file>>
    /\ UNCHANGED <<mergeVars, zip_exists, required, pom_content, idx, writes, inserted,
                   sync_res, run, file0, file_run1>>

\* line 285: fs::remove_file("spring.zip")?
RemoveZip ==
    /\ pc = "remove_zip"
    /\ \/ /\ zip_exists
          /\ Pass("remove_zip", "mvn_version")
          /\ zip_exists' = FALSE
       \/ /\ Fail("remove_zip")
          /\ UNCHANGED zip_exists
    /\ UNCHANGED <<mergeVars, app_exists, syncVars>>

\* lines 287-298: ./mvnw help:evaluate in the app directory
MvnVersion ==
    /\ pc = "mvn_version"
    /\ \/ /\ app_exists
          /\ Pass("mvn_version", "sync_read")
       \/ Fail("mvn_version")
    /\ UNCHANGED <<mergeVars, zip_exists, app_exists, syncVars>>

\* lines 301-304: sync_plugins(config)? and Ok(())
SyncReturn ==
    /\ pc = "sync_ret"
    /\ IF sync_res = "ok"
       THEN /\ log' = Append(log, Entry("sync", "ok"))
            /\ result' = "ok"
            /\ pc' = "done"
       ELSE Fail("sync")
    /\ UNCHANGED <<mergeVars, zip_exists, app_exists, syncVars>>

----------------------------------------------------------------------------
(* sync_plugins: text of pom.xml *)

\* the literal inserted at line 352
BuildSection ==
    <<"NL4", "<build>", "NL8", "<plugins>", "NL8", "</plugins>", "NL4", "</build>", "NL">>

\* the literal inserted at line 361
PluginsSection == <<"NL8", "<plugins>", "NL8", "</plugins>", "NL">>

\* format!(...) of lines 368-373
plugin_xml(group_id, artifact_id, version) ==
    <<"NL12", "<plugin>", "NL16", "<groupId>">> \o group_id \o <<"</groupId>">>
    \o <<"NL16", "<artifactId>">> \o artifact_id \o <<"</artifactId>">>
    \o <<"NL16", "<version>">> \o version \o <<"</version>">>
    \o <<"NL12", "</plugin>">>

\* plugin.split(":").collect()
Parts(plugin) == Split(plugin, ":")

\* the check of line 335
PartsOk(plugin) == Len(Parts(plugin)) = 3

\* the declaration block of a coordinate that passed line 335
PluginBlock(plugin) ==
    plugin_xml(Parts(plugin)[1], Parts(plugin)[2], Parts(plugin)[3])

Ok(content) == [ok |-> TRUE, content |-> content]
Err         == [ok |-> FALSE, content |-> <<>>]

\* lines 349-365: add the build and plugins sections when their opening tag is absent
EnsureSections(content) ==
    IF ~Contains(content, <<"<build>">>)
    THEN LET insert_pos == Find(content, <<"</project>">>) IN
         IF insert_pos = 0 THEN Err
         ELSE Ok(InsertStr(content, insert_pos, BuildSection))
    ELSE IF ~Contains(content, <<"<plugins>">>)
    THEN LET insert_pos == Find(content, <<"</build>">>) IN
         IF insert_pos = 0 THEN Err
         ELSE Ok(InsertStr(content, insert_pos, PluginsSection))
    ELSE Ok(content)

\* a variant that puts a new declaration at the head of the plugin list
PluginsStartPos(content) ==
    IF Contains(content, <<"<plugins>">>) THEN Find(content, <<"<plugins>">>) + 1 ELSE 0

\* line 375: pom_content.find("</plugins>")
PluginsEndPos(content) == Find(content, <<"</plugins>">>)

\* lines 367-377: insert the declaration before the first </plugins>
AddPlugin(content, plugin) ==
    LET plugins_end_pos == PluginsEndPos(content) IN
    IF plugins_end_pos = 0 THEN Err
    ELSE Ok(InsertStr(content, plugins_end_pos, PluginBlock(plugin)))

\* lines 349-377 on the text read at line 346
PatchPom(content, plugin) ==
    LET ensured == EnsureSections(content) IN
    IF ensured.ok THEN AddPlugin(ensured.content, plugin) ELSE Err

\* a variant that patches the text read before the loop
ReadStalePom(on_disk, stale) == stale

\* line 346: the inner pom_content is read again from disk
ReadCurrentPom(on_disk, stale) == on_disk

\* line 330: the presence check looks at the outer pom_content
Present(plugin) == Contains(pom_content, plugin)

----------------------------------------------------------------------------
(* sync_plugins: steps *)

InLoop == pc = "sync_loop" /\ idx <= Len(required)

SyncFail(kind) ==
    /\ sync_res' = kind
    /\ pc' = "sync_ret"
    /\ UNCHANGED <<file, required, pom_content, idx, writes, inserted, run, file0, file_run1>>

\* line 325: read pom.xml once, before the loop
SyncRead ==
    /\ pc = "sync_read"
    /\ file0' = file
    /\ IF file = NoFile
       THEN /\ sync_res' = "io"
            /\ pc' = "sync_ret"
            /\ UNCHANGED <<file, required, pom_content, idx, writes, inserted, run, file_run1>>
       ELSE /\ pom_content' = file
            /\ pc' = "sync_loop"
            /\ UNCHANGED <<file, required, idx, writes, inserted, sync_res, run, file_run1>>
    /\ UNCHANGED <<mergeVars, log, result, zip_exists, app_exists>>

\* line 330 false: the coordinate string occurs in the text read before the loop
SyncSkip ==
    /\ InLoop
    /\ Present(required[idx])
    /\ idx' = idx + 1
    /\ UNCHANGED <<pc, file, required, pom_content, writes, inserted, sync_res, run, file0, file_run1>>
    /\ UNCHANGED <<mergeVars, log, result, zip_exists, app_exists>>

\* lines 334-337: the coordinate does not split into three parts
SyncInvalid ==
    /\ InLoop
    /\ ~Present(required[idx])
    /\ ~PartsOk(required[idx])
    /\ SyncFail("format")
    /\ UNCHANGED <<mergeVars, log, result, zip_exists, app_exists>>

\* lines 346-380: read, patch and write back pom.xml for one missing plugin
SyncInsert ==
    /\ InLoop
    /\ ~Present(required[idx])
    /\ PartsOk(required[idx])
    /\ LET patched == PatchPom(ReadCurrentPom(file, pom_content), required[idx]) IN
       /\ patched.ok
       /\ file' = patched.content
    /\ writes' = writes + 1
    /\ inserted' = Append(inserted, required[idx])
    /\ idx' = idx + 1
    /\ UNCHANGED <<pc, required, pom_content, sync_res, run, file0, file_run1>>
    /\ UNCHANGED <<mergeVars, log, result, zip_exists, app_exists>>

\* lines 350, 359, 375: a closing tag the patch needs is not in the text
SyncMarkerMissing ==
    /\ InLoop
    /\ ~Present(required[idx])
    /\ PartsOk(required[idx])
    /\ ~PatchPom(ReadCurrentPom(file, pom_content), required[idx]).ok
    /\ SyncFail("marker")
    /\ UNCHANGED <<mergeVars, log, result, zip_exists, app_exists>>

\* lines 346, 380: fs::read_to_string or fs::write returns an error
SyncIoError ==
    /\ InLoop
    /\ ~Present(required[idx])
    /\ PartsOk(required[idx])
    /\ SyncFail("io")
    /\ UNCHANGED <<mergeVars, log, result, zip_exists, app_exists>>

\* line 384: the loop is over, Ok(())
SyncDone ==
    /\ pc = "sync_loop"
    /\ idx > Len(required)
    /\ sync_res' = "ok"
    /\ pc' = "sync_ret"
    /\ IF run = 1 THEN file_run1' = file ELSE UNCHANGED file_run1
    /\ UNCHANGED <<file, required, pom_content, idx, writes, inserted, run, file0>>
    /\ UNCHANGED <<mergeVars, log, result, zip_exists, app_exists>>

\* sync_plugins is called once more with the same config on the text it left
Resync ==
    /\ pc = "sync_ret"
    /\ sync_res = "ok"
    /\ run = 1
    /\ run' = 2
    /\ pc' = "sync_read"
    /\ sync_res' = "running"
    /\ idx' = 1
    /\ writes' = 0
    /\ inserted' = <<>>
    /\ file0' = file
    /\ UNCHANGED <<file, required, pom_content, file_run1>>
    /\ UNCHANGED <<mergeVars, log, result, zip_exists, app_exists>>

----------------------------------------------------------------------------
(* Inputs of sync_plugins *)

Coord1   == <<"g1", ":", "a1", ":", "v1">>
Coord2   == <<"g2", ":", "a2", ":", "v2">>
TwoParts == <<"g1", ":", "a1">>             \* like "org.example:badplugin"
EmptyMid == <<"g1", ":", ":", "v1">>        \* "g1::v1"
Coordinates == {Coord1, Coord2, TwoParts, EmptyMid}

DocHeads ==
    { <<"<project>">>,
      <<"<project>", "<reporting>", "<plugins>", "</plugins>", "</reporting>">>,
      <<"<project>", "<!--">> \o Coord1 \o <<"-->">>,
      <<"<project>", "<!--", "</project>", "-->">> }

DocBodies ==
    { <<>>,
      <<"<build>", "</build>">>,
      <<"<build>", "<plugins>", "</plugins>", "</build>">>,
      <<"<build>", "<plugins>">> \o PluginBlock(Coord2) \o <<"</plugins>", "</build>">>,
      <<"<build>">> }

DocTails == { <<"</project>">>, <<>> }

Documents == { h \o b \o t : h \in DocHeads, b \in DocBodies, t \in DocTails }

PluginLists == SeqsUpTo(Coordinates, MaxPlugins)

InitSync ==
    /\ prd_path = "none" /\ include = NoInclude /\ all_deps = Web /\ reply = Web
    /\ url_deps = Unset
    /\ pc = "sync_read" /\ log = <<>> /\ result = "running"
    /\ zip_exists = FALSE /\ app_exists = TRUE
    /\ file \in Documents
    /\ required \in PluginLists
    /\ pom_content = <<>>
    /\ idx = 1 /\ writes = 0 /\ inserted = <<>> /\ sync_res = "running"
    /\ run = 1 /\ file0 = file /\ file_run1 = <<>>

NextSync ==
    \/ SyncRead
    \/ SyncSkip
    \/ SyncInvalid
    \/ SyncInsert
    \/ SyncMarkerMissing
    \/ SyncIoError
    \/ SyncDone
    \/ Resync

SpecSync == InitSync /\ [][NextSync]_vars

----------------------------------------------------------------------------
(* Inputs of the merge and of the pipeline *)

ReplyChars   == {" ", ",", "a", "b"}
Replies      == SeqsUpTo(ReplyChars, MaxReplyLen)
IncludeChars == {" ", "a"}
IncludeItems == SeqsUpTo(IncludeChars, MaxTokLen)
Includes     == {NoInclude} \cup { SomeInclude(v) : v \in SeqsUpTo(IncludeItems, MaxInclude) }

SyncEntryState ==
    /\ pom_content = <<>>
    /\ idx = 1 /\ writes = 0 /\ inserted = <<>> /\ sync_res = "running"
    /\ run = 1 /\ file0 = <<>> /\ file_run1 = <<>>

\* init_project at line 235, for every reply and every --include
InitMerge ==
    /\ \/ prd_path = "some" /\ all_deps \in Replies
       \/ prd_path = "none" /\ all_deps = Web
    /\ reply = all_deps
    /\ include \in Includes
    /\ url_deps = Unset
    /\ pc = "merge" /\ log = <<>> /\ result = "running"
    /\ zip_exists = FALSE /\ app_exists = FALSE
    /\ file = NoFile /\ required = <<>>
    /\ SyncEntryState

NextMerge ==
    \/ Merge
    \/ Reset
    \/ Download

SpecMerge == InitMerge /\ [][NextMerge]_vars

PipelineIncludes == { NoInclude, SomeInclude(<<>>), SomeInclude(<<<<"a">>>>) }
PipelinePlugins  == { <<>>, <<Coord1>>, <<TwoParts>>, <<Coord1, Coord2>> }

\* init_project at line 207
InitPipeline ==
    /\ prd_path \in {"none", "some"}
    /\ include \in PipelineIncludes
    /\ all_deps = <<>> /\ reply = <<>> /\ url_deps = Unset
    /\ pc = "start" /\ log = <<>> /\ result = "running"
    /\ zip_exists \in BOOLEAN
    /\ app_exists \in BOOLEAN
    /\ file = IF app_exists THEN <<"<project>", "</project>">> ELSE NoFile
    /\ required \in PipelinePlugins
    /\ SyncEntryState

NextPipeline ==
    \/ Suggest
    \/ DefaultDeps
    \/ Merge
    \/ Reset
    \/ Download
    \/ Unzip
    \/ RemoveZip
    \/ MvnVersion
    \/ SyncRead
    \/ SyncSkip
    \/ SyncInvalid
    \/ SyncInsert
    \/ SyncMarkerMissing
    \/ SyncIoError
    \/ SyncDone
    \/ SyncReturn

SpecPipeline == InitPipeline /\ [][NextPipeline]_vars

----------------------------------------------------------------------------
(* Properties of the merge *)

\* the tokens of a comma-joined string; the empty string holds no token
OutTokens(s) == IF s = <<>> THEN <<>> ELSE Split(s, ",")

Range(v) == { v[i] : i \in 1..Len(v) }

\* the trimmed non-empty tokens of the primary string and of the additional list
InputTokens(primary, additional) ==
    (Range(MapTrim(Split(primary, ","))) \cup Range(MapTrim(additional))) \ {<<>>}

\* C2: the merged dependency string is sorted ascending, has no duplicate and no
\* empty token, and its tokens are the trimmed non-empty tokens of the reply (or
\* of the default) and of the include list.
C2_MergedSortedUnique ==
    url_deps # Unset =>
        LET toks == OutTokens(url_deps) IN
        /\ \A i \in 1..(Len(toks) - 1) : StrLess(toks[i], toks[i + 1])
        /\ \A i \in 1..Len(toks) : toks[i] # <<>>
        /\ Range(toks) = InputTokens(reply, include.items)

\* C3: without --include the dependency string is the one an empty --include
\* list gives.
C3_NoneEqualsEmpty ==
    (url_deps # Unset /\ include = SomeInclude(<<>>)) =>
        url_deps = UrlDeps(MergeDeps(reply, NoInclude))

----------------------------------------------------------------------------
(* Properties of the pipeline *)

StepOrder ==
    <<"suggest", "reset", "download", "unzip", "remove_zip", "mvn_version", "sync">>

StepIndex(step) == CHOOSE i \in 1..Len(StepOrder) : StepOrder[i] = step

\* C6: the steps run at most once and in pipeline order, a step runs only after
\* every step before it succeeded (the suggestion call is not part of a run
\* without PRD), and after a failed step nothing runs and the run is an error.
C6_FailFast ==
    /\ \A i \in 1..(Len(log) - 1) :
          /\ StepIndex(log[i].step) < StepIndex(log[i + 1].step)
          /\ log[i].outcome = "ok"
    /\ \A i \in 1..Len(log) :
          \A j \in 1..(StepIndex(log[i].step) - 1) :
             (j = 1 /\ prd_path = "none") \/ (\E k \in 1..(i - 1) : log[k].step = StepOrder[j])
    /\ (log # <<>> /\ log[Len(log)].outcome = "err") => (result = "err" /\ pc = "done")
    /\ result = "err" => (log # <<>> /\ log[Len(log)].outcome = "err")
    /\ result = "ok" => (log # <<>> /\ log[Len(log)] = Entry("sync", "ok"))

C6_Witness ==
    /\ Len(log) >= 4
    /\ log[Len(log)] = Entry("unzip", "err")
    /\ result = "err"

----------------------------------------------------------------------------
(* Properties of sync_plugins *)

\* a coordinate as the data model defines it: exactly three non-empty components
WellFormed(plugin) ==
    /\ Len(Parts(plugin)) = 3
    /\ \A i \in 1..3 : Parts(plugin)[i] # <<>>

Count(s, sym) == Cardinality({ i \in 1..Len(s) : s[i] = sym })

\* 1-based position of the last occurrence of a symbol, 0 if there is none
FindLast(s, sym) ==
    IF Count(s, sym) = 0 THEN 0
    ELSE CHOOSE i \in 1..Len(s) : s[i] = sym /\ \A j \in (i + 1)..Len(s) : s[j] # sym

\* the text without its newline-and-indentation symbols
WhiteSpace == {"NL", "NL4", "NL8", "NL12", "NL16"}
NoWs(s) == SelectSeq(s, LAMBDA sym : sym \notin WhiteSpace)

RECURSIVE ConcatBlocks(_)
ConcatBlocks(ps) ==
    IF ps = <<>> THEN <<>> ELSE PluginBlock(Head(ps)) \o ConcatBlocks(Tail(ps))

\* a is obtained from b by deleting elements
RECURSIVE IsSubseq(_, _)
IsSubseq(a, b) ==
    IF a = <<>> THEN TRUE
    ELSE IF b = <<>> THEN FALSE
    ELSE IF Head(a) = Head(b) THEN IsSubseq(Tail(a), Tail(b))
    ELSE IsSubseq(a, Tail(b))

AllWellFormed == \A i \in 1..Len(required) : WellFormed(required[i])

\* C1: a second sync_plugins call with the same list of valid coordinates leaves
\* the text of pom.xml as the first call left it.
C1_SyncIdempotent ==
    (run = 2 /\ sync_res = "ok" /\ AllWellFormed) => file = file_run1

\* the case of C4: one valid absent coordinate, a text with </project> and no <build>
C4_Case ==
    /\ run = 1 /\ sync_res = "ok"
    /\ Len(required) = 1 /\ WellFormed(required[1])
    /\ ~Contains(file0, required[1])
    /\ Contains(file0, <<"</project>">>)
    /\ ~Contains(file0, <<"<build>">>)

\* C4: on a text with </project> and no <build>, sync of one valid absent
\* coordinate adds one build section holding one plugins section holding the
\* one declaration, immediately before the root closing tag (white space aside).
C4_NestedBeforeRootClose ==
    C4_Case =>
        NoWs(file) = NoWs(InsertStr(file0, FindLast(file0, "</project>"),
                         <<"<build>", "<plugins>">> \o PluginBlock(required[1])
                         \o <<"</plugins>", "</build>">>))

\* C5: sync_plugins fails at every coordinate that is not three non-empty
\* components (the loop never moves past one), and the text is unchanged when
\* that coordinate is the first of the list.
C5_MalformedCoordinateFails ==
    \A i \in 1..Len(required) :
        ~WellFormed(required[i]) =>
            /\ idx <= i
            /\ sync_res # "ok"
            /\ i = 1 => file = file0

\* C7 as stated: at most one write per call, and none while a plugin is unprocessed
C7_SingleBatchedWrite ==
    /\ writes <= 1
    /\ writes > 0 => idx > Len(required)

\* C7 amended: pom.xml is written once per inserted plugin, right after its
\* insertion: the writes of a call are as many as the plugins inserted so far,
\* never more than the plugins processed, and each write added one declaration.
C7_WritePerInsertedPlugin ==
    /\ writes = Len(inserted)
    /\ writes <= idx - 1
    /\ file # NoFile => Count(file, "<plugin>") = Count(file0, "<plugin>") + writes

C7_Witness == writes >= 2 /\ idx <= Len(required) /\ pc = "sync_loop"

\* 1-based position of the first </build> after the first <build>, 0 if none
BuildClose(s) ==
    LET open == Find(s, <<"<build>">>) IN
    IF open = 0 THEN 0
    ELSE LET rest == SubSeq(s, open + 1, Len(s)) IN
         IF Find(rest, <<"</build>">>) = 0 THEN 0 ELSE open + Find(rest, <<"</build>">>)

\* the case of C8: a build section without a plugins section inside it
C8_Case ==
    /\ run = 1 /\ sync_res = "ok"
    /\ Len(required) = 1 /\ WellFormed(required[1])
    /\ ~Contains(file0, required[1])
    /\ BuildClose(file0) # 0
    /\ ~Contains(SubSeq(file0, Find(file0, <<"<build>">>), BuildClose(file0)), <<"<plugins>">>)

\* C8: when the build section has no plugins section, sync adds a plugins section
\* immediately before </build> and puts the declaration in it, whatever <plugins>
\* tags stand outside the build section.
C8_PluginsInsideBuild ==
    C8_Case =>
        NoWs(file) = NoWs(InsertStr(file0, BuildClose(file0),
                         <<"<plugins>">> \o PluginBlock(required[1]) \o <<"</plugins>">>))

\* the case of C9: the call failed validating required[idx], and the entries
\* before it are valid coordinates absent from the text the call started on
C9_Case ==
    /\ sync_res = "format"
    /\ \A i \in 1..(idx - 1) : WellFormed(required[i]) /\ ~Contains(file0, required[i])

\* C9: when validation of a coordinate fails after valid absent coordinates
\* p1..pk, the call is an error and pom.xml on disk holds the declarations of
\* p1..pk and no declaration more.
C9_PartialNotRolledBack ==
    C9_Case =>
        /\ \A i \in 1..(idx - 1) : Contains(file, PluginBlock(required[i]))
        /\ Count(file, "<plugin>") = Count(file0, "<plugin>") + (idx - 1)

C9_Witness == C9_Case /\ idx = 3 /\ required[1] # required[2]

\* C10: the declarations inserted by a call stand in pom.xml in the order of
\* their coordinates in the required list, as one run that ends immediately
\* before a </plugins>, hence after everything that section already held.
C10_InsertionOrder ==
    /\ IsSubseq(inserted, required)
    /\ inserted # <<>> =>
         LET blocks == ConcatBlocks(inserted) IN
         \E k \in 1..(Len(file) - Len(blocks)) :
            /\ SubSeq(file, k, k + Len(blocks) - 1) = blocks
            /\ file[k + Len(blocks)] = "</plugins>"
            /\ k + Len(blocks) = Find(file, <<"</plugins>">>)

C10_Witness ==
    /\ Len(inserted) >= 2 /\ inserted[1] # inserted[2]
    /\ Contains(file0, PluginBlock(Coord2))
    /\ Contains(file, PluginBlock(Coord2) \o ConcatBlocks(inserted))

====
